---------------------------- MODULE Spec2Model ----------------------------
(***************************************************************************)
(* A model of jira_auto_create.py: the pipeline run_pipeline that turns a  *)
(* free-text brief into tracker issues (LLM extraction, metadata           *)
(* resolution, creation of parent tasks and their subtasks).               *)
(*                                                                         *)
(* The run is single-threaded.  One action stands for one function call   *)
(* of run_pipeline; the HTTP calls a function makes are recorded, in       *)
(* order, in the log `calls`, each with its outcome.                       *)
(***************************************************************************)
EXTENDS Integers, Sequences, FiniteSets, TLC

\* ------------------------------------------------------------------------
\* Bounds of the model
\* ------------------------------------------------------------------------
MaxTasks == 2
MaxSubtasks == 2
MaxPrios == 3

\* ------------------------------------------------------------------------
\* Python values
\* ------------------------------------------------------------------------
\* Python's None, where the other values are strings.
None == "None"

\* Truthiness of an Optional[str]: None and "" are falsy.
Truthy(v) == v # None /\ v # ""

\* An Optional value that is not a string: <<>> is None, <<x>> is x.
Some(x) == <<x>>
Nothing == <<>>

Min(S) == CHOOSE x \in S : \A y \in S : x <= y

\* s[:n]
Take(s, n) == SubSeq(s, 1, IF Len(s) < n THEN Len(s) ELSE n)

SeqLabels11 == <<"l1", "l2", "l3", "l4", "l5", "l6", "l7", "l8", "l9", "l10", "l11">>


\* ------------------------------------------------------------------------
\* Strings.  TLA+ strings are atomic, so a priority name is the sequence of
\* its whitespace-separated words, and str.lower() / str.strip() are given
\* by what they do on the words and names that occur.
\* ------------------------------------------------------------------------
LowerWord(w) ==
    CASE w = "Highest" -> "highest"
      [] w = "High" -> "high"
      [] w = "HIGH" -> "high"
      [] w = "Medium" -> "medium"
      [] w = "Low" -> "low"
      [] w = "Lowest" -> "lowest"
      [] w = "Priority" -> "priority"
      [] w = "Urgent" -> "urgent"
      [] OTHER -> w

\* name.lower() of a name given as its words
Lower(name) == [i \in 1..Len(name) |-> LowerWord(name[i])]

\* s.strip().lower() of a summary or field name
StripLower(s) ==
    CASE s = "Foo" -> "foo"
      [] s = " FOO " -> "foo"
      [] s = "Foo Project" -> "foo project"
      [] s = "Epic Link" -> "epic link"
      [] s = " epic LINK " -> "epic link"
      [] s = "Summary" -> "summary"
      [] OTHER -> s

\* "sub" in name.lower()
ContainsSub(name) ==
    name \in {"Sub-task", "Subtarea", "Sub-task (Jira)", "Technical Sub-Task", "SUBTASK"}

\* ------------------------------------------------------------------------
\* A Python dict, insertion-ordered: a sequence of [k, v] entries with
\* distinct keys.  d[k] = v keeps the position of an existing key.
\* ------------------------------------------------------------------------
DictHas(d, k) == \E i \in 1..Len(d) : d[i].k = k

DictSet(d, k, v) ==
    IF DictHas(d, k)
    THEN [i \in 1..Len(d) |-> IF d[i].k = k THEN [k |-> k, v |-> v] ELSE d[i]]
    ELSE Append(d, [k |-> k, v |-> v])

\* d.get(k): the value, or None
DictGet(d, k) ==
    IF DictHas(d, k) THEN d[CHOOSE i \in 1..Len(d) : d[i].k = k].v ELSE None

\* d.update(e), for the first n entries of e
RECURSIVE DictUpdate(_, _, _)
DictUpdate(d, e, n) ==
    IF n = 0 THEN d ELSE DictSet(DictUpdate(d, e, n - 1), e[n].k, e[n].v)

\* ------------------------------------------------------------------------
\* Jira metadata helpers
\* ------------------------------------------------------------------------
\* The first loop of get_priority_map over the first n priorities:
\* out[p["name"].lower()] = p["id"]
RECURSIVE PriorityOut(_, _)
PriorityOut(ps, n) ==
    IF n = 0 THEN <<>>
    ELSE DictSet(PriorityOut(ps, n - 1), Lower(ps[n].name), ps[n].id)

\* The second loop, over the first n items of out:
\* alias[k.split()[0]] = v
RECURSIVE PriorityAlias(_, _)
PriorityAlias(out, n) ==
    IF n = 0 THEN <<>>
    ELSE DictSet(PriorityAlias(out, n - 1), <<Head(out[n].k)>>, out[n].v)

\* get_priority_map, on the list GET /priority returned.  Priority names
\* are not empty (k.split()[0] needs a word).
get_priority_map(ps) ==
    LET out == PriorityOut(ps, Len(ps))
        alias == PriorityAlias(out, Len(out))
    IN  DictUpdate(out, alias, Len(alias))

\* The first issue type of its whose name is one of names: its id, or Nothing
FirstNamed(its, names) ==
    LET hits == {i \in 1..Len(its) : its[i].name \in names}
    IN  IF hits = {} THEN Nothing ELSE Some(its[Min(hits)].id)

WantedTask == {"Task", "Tarea"}
WantedSubtask == {"Sub-task", "Subtarea", "Sub-task (Jira)"}

\* get_issue_type_ids, on the issue types of the first project of the
\* createmeta answer: a function from a subset of {"task", "subtask"} to ids.
get_issue_type_ids(its) ==
    LET task0 == FirstNamed(its, WantedTask)
        sub0 == FirstNamed(its, WantedSubtask)
        task1 == IF task0 = Nothing /\ its # <<>> THEN Some(its[1].id) ELSE task0
        subs == {i \in 1..Len(its) : ContainsSub(its[i].name)}
        sub1 == IF sub0 = Nothing /\ subs # {} THEN Some(its[Min(subs)].id) ELSE sub0
        keys == (IF task1 # Nothing THEN {"task"} ELSE {})
                \cup (IF sub1 # Nothing THEN {"subtask"} ELSE {})
    IN  [k \in keys |-> IF k = "task" THEN task1[1] ELSE sub1[1]]

\* find_account_id after its early return: users[0]["accountId"] if users else None
FirstAccountId(users) == IF users # <<>> THEN users[1] ELSE None

\* get_epic_link_field_key, on the list GET /field returned
get_epic_link_field_key(fields) ==
    LET hits == {i \in 1..Len(fields) : StripLower(fields[i].name) = "epic link"}
    IN  IF hits = {} THEN None ELSE fields[Min(hits)].id

\* find_epic_issue, on the issues POST /search returned (newest first)
find_epic_issue(found, epic_name) ==
    LET exact == {i \in 1..Len(found) :
                    StripLower(found[i].summary) = StripLower(epic_name)}
    IN  IF found = <<>> THEN Nothing
        ELSE IF exact # {} THEN Some(found[Min(exact)])
        ELSE Some(found[1])

\* What the first regex match of a line captures, stripped: None when the
\* line does not match ^\s*epic\s*:\s*(.+)$
EpicOfLine(line) ==
    CASE line = "Epic: Foo" -> "Foo"
      [] line = "  EPIC :  Foo  " -> "Foo"
      [] line = "epic: Bar" -> "Bar"
      [] line = "Epic:  " -> ""
      [] OTHER -> None

\* detect_epic_name: the first matching line decides
detect_epic_name(text) ==
    LET hits == {i \in 1..Len(text) : EpicOfLine(text[i]) # None}
    IN  IF hits = {} THEN None ELSE EpicOfLine(text[Min(hits)])

\* ------------------------------------------------------------------------
\* Issue composition
\* ------------------------------------------------------------------------
SummaryMax == 255
LabelsMax == 10

\* A title is its identity and its length; title[:255] cuts the length.
TitlePrefix(title, n) == [title EXCEPT !.len = IF @ > n THEN n ELSE @]

\* to_adf_description: the content list of the document, at most two
\* paragraphs and never none.  (Due dates are left out of the model.)
to_adf_description(description, labels, assignee) ==
    LET body == IF description # "" THEN <<[text |-> description, meta |-> <<>>]>>
                ELSE <<>>
        meta_items == (IF labels # <<>> THEN <<"Etiquetas">> ELSE <<>>)
                      \o (IF Truthy(assignee) THEN <<"Asignado">> ELSE <<>>)
        meta == IF meta_items # <<>> THEN <<[text |-> "", meta |-> meta_items]>>
                ELSE <<>>
    IN  IF body \o meta = <<>> THEN <<[text |-> "", meta |-> <<>>]>>
        ELSE body \o meta

\* prio_id of create_issue:
\* priority_map.get((task.priority or "").lower()) if task.priority else None
\* A priority is the sequence of its words; <<>> stands for None and "".
PriorityId(priority_map, priority) ==
    IF priority # <<>> THEN DictGet(priority_map, Lower(priority)) ELSE None

\* A variant of ParentField that links the epic as parent whenever there is
\* an epic, also beside the epic-link field.
ParentFieldEpicAlways(epic_ctx, epic_field_key, parent_key) ==
    IF parent_key # <<>> THEN Some([by |-> "key", ref |-> parent_key])
    ELSE IF epic_ctx # Nothing THEN Some([by |-> "id", ref |-> epic_ctx[1].id])
    ELSE Nothing

\* fields["parent"] of create_issue: the parent key of a subtask; for a
\* parent task the id of the epic, when there is an epic and no field key
ParentField(epic_ctx, epic_field_key, parent_key) ==
    IF parent_key # <<>> THEN Some([by |-> "key", ref |-> parent_key])
    ELSE IF epic_ctx # Nothing /\ ~Truthy(epic_field_key)
    THEN Some([by |-> "id", ref |-> epic_ctx[1].id])
    ELSE Nothing

\* The fields of the payload create_issue posts.  parent_key is <<>> (None)
\* or an issue key; epic_ctx is Nothing or Some(epic); the optional fields
\* of the payload (parent, priority, the epic-link custom field, assignee)
\* are Nothing when the key is not in the dict.
IssueFields(task, ids, epic_ctx, epic_field_key, parent_key, prio_id, assignee_id) ==
    [summary |-> TitlePrefix(task.title, SummaryMax),
     description |-> to_adf_description(task.description, task.labels, task.assignee),
     labels |-> Take(task.labels, LabelsMax),
     issuetype |-> IF parent_key # <<>> THEN ids["subtask"] ELSE ids["task"],
     parent |-> ParentField(epic_ctx, epic_field_key, parent_key),
     priority |-> IF parent_key = <<>> /\ Truthy(prio_id) THEN Some(prio_id)
                  ELSE Nothing,
     epic_link |-> IF parent_key = <<>> /\ epic_ctx # Nothing /\ Truthy(epic_field_key)
                   THEN Some([field |-> epic_field_key, value |-> epic_ctx[1].key])
                   ELSE Nothing,
     assignee |-> IF Truthy(assignee_id) THEN Some(assignee_id) ELSE Nothing]

\* The TaskIn run_pipeline builds for subtask st of task t
SubtaskAsTask(t, st) ==
    [title |-> st.title,
     description |-> st.description,
     labels |-> t.labels,
     priority |-> <<>>,
     assignee |-> IF Truthy(st.assignee) THEN st.assignee ELSE t.assignee,
     subtasks |-> <<>>]

\* A variant of PreviewLines that prints the subtasks before their task.
PreviewLinesSubtasksFirst(t) ==
    [j \in 1..Len(t.subtasks) |-> [kind |-> "DRY Subtask", title |-> t.subtasks[j].title]]
    \o <<[kind |-> "DRY Task", title |-> t.title]>>

\* The [DRY] lines run_pipeline prints for task t: the task, then its subtasks
PreviewLines(t) ==
    <<[kind |-> "DRY Task", title |-> t.title]>>
    \o [j \in 1..Len(t.subtasks) |-> [kind |-> "DRY Subtask", title |-> t.subtasks[j].title]]

\* ------------------------------------------------------------------------
\* Inputs: the brief, the bundle the LLM answers with, the tracker
\* ------------------------------------------------------------------------
\* The brief, as its lines.
RawTexts ==
    {<<"Tareas a crear:", "- Diseno 1">>,
     <<"Brief", "  EPIC :  Foo  ", "epic: Bar">>,
     <<"Epic:  ", "- Diseno 1">>}

ApiKeys == {"", "sk-test"}

\* SubtaskIn number j of task i.  Titles name the position, so that the
\* order of what is printed and created can be read off.
SubtaskAt(i, j) ==
    [title |-> [id |-> <<i, j>>, len |-> 20],
     description |-> IF j = 1 THEN "" ELSE "detalle",
     assignee |-> CASE j % 3 = 1 -> None
                    [] j % 3 = 2 -> "bob"
                    [] OTHER -> ""]

\* What a TaskIn holds besides its title and its subtasks.
TaskKinds ==
    {[description |-> "", labels |-> <<>>, priority |-> <<"Medium">>,
      assignee |-> None, len |-> 20],
     [description |-> "texto", labels |-> SeqLabels11, priority |-> <<"HIGH">>,
      assignee |-> "ana", len |-> 300],
     [description |-> "", labels |-> <<"ui">>, priority |-> <<"Urgent">>,
      assignee |-> "zoe", len |-> 20]}

TaskAt(i, kind, nsub) ==
    [title |-> [id |-> <<i>>, len |-> kind.len],
     description |-> kind.description,
     labels |-> kind.labels,
     priority |-> kind.priority,
     assignee |-> kind.assignee,
     subtasks |-> [j \in 1..nsub |-> SubtaskAt(i, j)]]

\* The TaskBundles: the list of tasks of each.
Bundles ==
    UNION {{[i \in 1..n |-> TaskAt(i, f[i][1], f[i][2])] :
              f \in [1..n -> TaskKinds \X (0..MaxSubtasks)]} : n \in 0..MaxTasks}

PrioritiesDefault ==
    <<[name |-> <<"Highest">>, id |-> "1"], [name |-> <<"High">>, id |-> "2"],
      [name |-> <<"Medium">>, id |-> "3"], [name |-> <<"Low">>, id |-> "4"],
      [name |-> <<"Lowest">>, id |-> "5"]>>

PrioritiesCustom ==
    <<[name |-> <<"High">>, id |-> "2"], [name |-> <<"High", "Priority">>, id |-> "7"],
      [name |-> <<"Low", "Priority">>, id |-> "8"]>>

UserQueries == {"ana", "bob", "zoe"}

\* GET /user/search?query=q, by q
Directory ==
    [q \in UserQueries |->
        CASE q = "ana" -> <<"acc-ana", "acc-ana-2">>
          [] q = "bob" -> <<"acc-bob">>
          [] OTHER -> <<>>]

NoUsers == [q \in UserQueries |-> <<>>]

EpicFoo == [key |-> <<"CS", 1>>, id |-> "10001", summary |-> " FOO "]
EpicFooProject == [key |-> <<"CS", 2>>, id |-> "10002", summary |-> "Foo Project"]

\* What the tracker answers: projects is the "projects" list of createmeta
\* (each project its issue types), epics the issues POST /search finds,
\* last_key the number of the newest issue of the project.
Trackers ==
    {\* company-managed: Task and Sub-task by name, an Epic Link field
     [projects |-> <<<<[name |-> "Epic", id |-> "10000"], [name |-> "Task", id |-> "10003"],
                       [name |-> "Sub-task", id |-> "10004"]>>>>,
      fields |-> <<[name |-> "Summary", id |-> "summary"],
                   [name |-> " epic LINK ", id |-> "customfield_10014"]>>,
      epics |-> <<EpicFooProject, EpicFoo>>,
      priorities |-> PrioritiesDefault, users |-> Directory, last_key |-> 2],
     \* team-managed, localized: no Epic Link field
     [projects |-> <<<<[name |-> "Subtarea", id |-> "10011"], [name |-> "Tarea", id |-> "10010"]>>>>,
      fields |-> <<[name |-> "Summary", id |-> "summary"]>>,
      epics |-> <<EpicFooProject>>,
      priorities |-> PrioritiesCustom, users |-> Directory, last_key |-> 2],
     \* no task name matches, no subtask type at all
     [projects |-> <<<<[name |-> "Story", id |-> "10020"], [name |-> "Bug", id |-> "10021"]>>>>,
      fields |-> <<>>,
      epics |-> <<>>,
      priorities |-> PrioritiesDefault, users |-> NoUsers, last_key |-> 0],
     \* the subtask type only by the substring "sub"
     [projects |-> <<<<[name |-> "Historia", id |-> "10030"],
                       [name |-> "Technical Sub-Task", id |-> "10031"]>>>>,
      fields |-> <<[name |-> "Epic Link", id |-> "customfield_10008"]>>,
      epics |-> <<>>,
      priorities |-> PrioritiesCustom, users |-> Directory, last_key |-> 0],
     \* a project with no issue types
     [projects |-> <<<<>>>>,
      fields |-> <<>>,
      epics |-> <<>>,
      priorities |-> PrioritiesDefault, users |-> Directory, last_key |-> 0],
     \* createmeta lists no project
     [projects |-> <<>>,
      fields |-> <<>>,
      epics |-> <<>>,
      priorities |-> PrioritiesDefault, users |-> Directory, last_key |-> 0]}

\* Why an attempt of llm_structurize_tasks fails: the call, json.loads, or
\* TaskBundle(**data)
ChatFailures == {"chat: call failed", "chat: invalid JSON", "chat: not a TaskBundle"}
ResponsesFailures == {"responses: call failed", "responses: invalid JSON",
                      "responses: not a TaskBundle"}

\* The priority lists get_priority_map is applied to on its own: up to
\* MaxPrios priorities with distinct names, each with an id of its own.
PriorityNames ==
    {<<"High">>, <<"HIGH", "Priority">>, <<"Highest">>, <<"Low">>, <<"Low", "Priority">>}

PriorityLists ==
    UNION {{[i \in 1..n |-> [name |-> f[i], id |-> ToString(i)]] :
              f \in {g \in [1..n -> PriorityNames] :
                       \A i, j \in 1..n : i # j => Lower(g[i]) # Lower(g[j])}} :
           n \in 0..MaxPrios}

\* ------------------------------------------------------------------------
\* State
\* ------------------------------------------------------------------------
VARIABLES
    raw_text,        \* the brief run_pipeline is called with
    dry_run,         \* its dry_run argument
    api_key,         \* OPENAI_API_KEY of the environment
    tracker,         \* what the tracker answers during the run
    pc,              \* where run_pipeline is
    epic_name,       \* run_pipeline's locals ...
    epic_ctx,
    epic_field_key,
    bundle,          \* Nothing before llm_structurize_tasks returned
    e_chat,          \* the exception of the first attempt, inside the except block
    ids,
    created_keys,
    ti,              \* the index in bundle.tasks of the task `t` of the for loop
    si,              \* the index in t.subtasks of the subtask `st`
    parent_key,
    calls,           \* the LLM and HTTP calls issued so far, each with its outcome
    issues,          \* the issues the tracker created during the run
    printed,         \* the lines printed
    returned,        \* Some(the list returned), Nothing before the return
    error,           \* Some(the exception raised out of run_pipeline)
    prio_in,         \* get_priority_map on its own: the list fetched ...
    prio_out         \* ... and Some(the map returned)

vars == <<raw_text, dry_run, api_key, tracker, pc, epic_name, epic_ctx,
          epic_field_key, bundle, e_chat, ids, created_keys, ti, si, parent_key,
          calls, issues, printed, returned, error, prio_in, prio_out>>

env == <<raw_text, dry_run, api_key, tracker, prio_in, prio_out>>
epic_vars == <<epic_name, epic_ctx, epic_field_key>>
loop_vars == <<ids, created_keys, ti, si, parent_key>>

NoTitle == [id |-> <<>>, len |-> 0]
Line(kind) == [kind |-> kind, title |-> NoTitle]

\* A call and whether it succeeded: for a tracker call, a status < 400; for
\* an LLM attempt, the call, json.loads and TaskBundle(**data) all passing.
Call(api, ok) == [api |-> api, ok |-> ok]

\* The RuntimeError of http_get / http_post on a status >= 400
HttpError(api) == [type |-> "RuntimeError", detail |-> <<api, "status >= 400">>]

\* A variant of Raise in which the exception is caught and the run goes on
\* from where it was.
RaiseAndGoOn(err) ==
    /\ pc' = pc
    /\ error' = Some(err)
    /\ returned' = returned

\* A variant of Raise in which the keys created so far are handed back.
RaiseReturningCreated(err) ==
    /\ pc' = "raised"
    /\ error' = Some(err)
    /\ returned' = Some(created_keys)

\* An exception leaves run_pipeline: nothing catches it there.
Raise(err) ==
    /\ pc' = "raised"
    /\ error' = Some(err)
    /\ returned' = returned

Init ==
    /\ raw_text \in RawTexts
    /\ dry_run \in BOOLEAN
    /\ api_key \in ApiKeys
    /\ tracker \in Trackers
    /\ pc = "start"
    /\ epic_name = None
    /\ epic_ctx = Nothing
    /\ epic_field_key = None
    /\ bundle = Nothing
    /\ e_chat = None
    /\ ids = <<>>
    /\ created_keys = <<>>
    /\ ti = 0
    /\ si = 0
    /\ parent_key = <<>>
    /\ calls = <<>>
    /\ issues = <<>>
    /\ printed = <<>>
    /\ returned = Nothing
    /\ error = Nothing
    /\ prio_in = <<>>
    /\ prio_out = Nothing

\* ------------------------------------------------------------------------
\* run_pipeline, step 0: the epic
\* ------------------------------------------------------------------------
\* The mode line and detect_epic_name(raw_text)
DetectEpic ==
    /\ pc = "start"
    /\ epic_name' = detect_epic_name(raw_text)
    /\ printed' = Append(printed, Line(IF dry_run THEN "DRY-RUN" ELSE "CREACION REAL"))
    /\ pc' = IF Truthy(epic_name') THEN "find_epic" ELSE "llm"
    /\ UNCHANGED <<env, epic_ctx, epic_field_key, bundle, e_chat, loop_vars, calls,
                   issues, returned, error>>

\* find_epic_issue(JIRA_PROJECT_KEY, epic_name): one POST /search
FindEpicIssue ==
    /\ pc = "find_epic"
    /\ \E ok \in BOOLEAN :
        /\ calls' = Append(calls, Call("POST /search", ok))
        /\ IF ~ok
           THEN /\ Raise(HttpError("POST /search"))
                /\ printed' = Append(printed, Line("Buscando epica"))
                /\ UNCHANGED epic_ctx
           ELSE LET epic == find_epic_issue(tracker.epics, epic_name)
                IN  /\ epic_ctx' = epic
                    /\ pc' = IF epic # Nothing THEN "epic_field" ELSE "llm"
                    /\ printed' = printed \o <<Line("Buscando epica")>>
                                   \o (IF epic # Nothing THEN <<>>
                                       ELSE <<Line("No se encontro la epica")>>)
                    /\ UNCHANGED <<returned, error>>
    /\ UNCHANGED <<env, epic_name, epic_field_key, bundle, e_chat, loop_vars, issues>>

\* get_epic_link_field_key(): one GET /field
GetEpicLinkFieldKey ==
    /\ pc = "epic_field"
    /\ \E ok \in BOOLEAN :
        /\ calls' = Append(calls, Call("GET /field", ok))
        /\ IF ~ok
           THEN /\ Raise(HttpError("GET /field"))
                /\ UNCHANGED <<epic_field_key, printed>>
           ELSE /\ epic_field_key' = get_epic_link_field_key(tracker.fields)
                /\ pc' = "llm"
                /\ printed' = Append(printed, Line("Epic encontrada"))
                /\ UNCHANGED <<returned, error>>
    /\ UNCHANGED <<env, epic_name, epic_ctx, bundle, e_chat, loop_vars, issues>>

\* ------------------------------------------------------------------------
\* run_pipeline, step 1: llm_structurize_tasks
\* ------------------------------------------------------------------------
\* A variant of LlmError that reports the last failure only.
LlmErrorLastOnly(chat, resp) ==
    [type |-> "RuntimeError", detail |-> <<"OpenAI fallo", resp, resp>>]

\* The RuntimeError llm_structurize_tasks raises when both attempts failed:
\* its message holds the messages of both exceptions.
LlmError(chat, resp) ==
    [type |-> "RuntimeError", detail |-> <<"OpenAI fallo", chat, resp>>]

\* The key check and the first attempt, client.chat.completions.create
LlmChat ==
    /\ pc = "llm"
    /\ printed' = Append(printed, Line("Analizando texto con LLM"))
    /\ IF ~Truthy(api_key)
       THEN /\ Raise([type |-> "RuntimeError",
                      detail |-> <<"OPENAI_API_KEY no esta seteada">>])
            /\ UNCHANGED <<bundle, e_chat, calls>>
       ELSE \/ \E b \in Bundles :
                /\ calls' = Append(calls, Call("chat.completions", TRUE))
                /\ bundle' = Some(b)
                /\ pc' = "types"
                /\ UNCHANGED <<e_chat, returned, error>>
            \/ \E e \in ChatFailures :
                /\ calls' = Append(calls, Call("chat.completions", FALSE))
                /\ e_chat' = e
                /\ pc' = "llm_fallback"
                /\ UNCHANGED <<bundle, returned, error>>
    /\ UNCHANGED <<env, epic_vars, loop_vars, issues>>

\* The second attempt, client.responses.create, inside the except block
LlmResponses ==
    /\ pc = "llm_fallback"
    /\ \/ \E b \in Bundles :
            /\ calls' = Append(calls, Call("responses", TRUE))
            /\ bundle' = Some(b)
            /\ e_chat' = None
            /\ pc' = "types"
            /\ UNCHANGED <<returned, error>>
       \/ \E e \in ResponsesFailures :
            /\ calls' = Append(calls, Call("responses", FALSE))
            /\ Raise(LlmError(e_chat, e))
            /\ UNCHANGED <<bundle, e_chat>>
    /\ UNCHANGED <<env, epic_vars, loop_vars, issues, printed>>

\* ------------------------------------------------------------------------
\* run_pipeline, step 2: the issue types
\* ------------------------------------------------------------------------
\* get_issue_type_ids(JIRA_PROJECT_KEY): one GET /issue/createmeta, then
\* data["projects"][0], and the notice of run_pipeline
GetIssueTypeIds ==
    /\ pc = "types"
    /\ \E ok \in BOOLEAN :
        /\ calls' = Append(calls, Call("GET /issue/createmeta", ok))
        /\ IF ~ok
           THEN /\ Raise(HttpError("GET /issue/createmeta"))
                /\ UNCHANGED <<ids, ti, printed>>
           ELSE IF tracker.projects = <<>>
           THEN /\ Raise([type |-> "IndexError", detail |-> <<"projects[0]">>])
                /\ UNCHANGED <<ids, ti, printed>>
           ELSE /\ ids' = get_issue_type_ids(tracker.projects[1])
                /\ printed' = IF {"task", "subtask"} \subseteq DOMAIN ids' THEN printed
                              ELSE Append(printed, Line("No se encontraron IDs claros"))
                /\ ti' = 1
                /\ pc' = "loop"
                /\ UNCHANGED <<returned, error>>
    /\ UNCHANGED <<env, epic_vars, bundle, e_chat, created_keys, si, parent_key, issues>>

\* ------------------------------------------------------------------------
\* create_issue
\* ------------------------------------------------------------------------
\* The key the tracker gives the next issue it creates
NextIssueKey == <<"CS", tracker.last_key + Len(issues) + 1>>

\* The ways a call of create_issue can go.  It fetches the priority map,
\* searches the assignee if there is one, looks up the issue type id and
\* posts the issue; the first call that fails ends it.  Each outcome: the
\* calls issued, Some(the exception) and Some(the fields posted).
create_issue(task, epic, field_key, parent) ==
    LET need == IF parent # <<>> THEN "subtask" ELSE "task"
        gets == <<"GET /priority">>
                \o (IF Truthy(task.assignee) THEN <<"GET /user/search">> ELSE <<>>)
        plan == IF need \in DOMAIN ids THEN Append(gets, "POST /issue") ELSE gets
        prio_id == PriorityId(get_priority_map(tracker.priorities), task.priority)
        assignee_id == IF Truthy(task.assignee)
                       THEN FirstAccountId(tracker.users[task.assignee])
                       ELSE None
        all_ok == [i \in 1..Len(plan) |-> Call(plan[i], TRUE)]
    IN  {[calls |-> [i \in 1..f |-> Call(plan[i], i < f)],
          err |-> Some(HttpError(plan[f])),
          fields |-> Nothing] : f \in 1..Len(plan)}
        \cup
        {IF need \in DOMAIN ids
         THEN [calls |-> all_ok,
               err |-> Nothing,
               fields |-> Some(IssueFields(task, ids, epic, field_key, parent,
                                           prio_id, assignee_id))]
         ELSE [calls |-> all_ok,
               err |-> Some([type |-> "KeyError", detail |-> <<need>>]),
               fields |-> Nothing]}

\* ------------------------------------------------------------------------
\* run_pipeline, step 3: the loop over bundle.tasks
\* ------------------------------------------------------------------------
Tasks == bundle[1]

\* One iteration of the loop in dry-run mode: the preview lines, then continue
DryRunTask ==
    /\ pc = "loop"
    /\ ti <= Len(Tasks)
    /\ dry_run
    /\ printed' = printed \o PreviewLines(Tasks[ti])
    /\ ti' = ti + 1
    /\ UNCHANGED <<env, epic_vars, bundle, e_chat, ids, created_keys, si, parent_key,
                   calls, issues, pc, returned, error>>

\* What run_pipeline does once the subtasks of task ti are done with
NextTask ==
    /\ ti' = ti + 1
    /\ si' = 0
    /\ pc' = "loop"

\* The parent issue of task ti: create_issue(t, ids, epic_ctx, epic_field_key, None)
CreateParent ==
    /\ pc = "loop"
    /\ ti <= Len(Tasks)
    /\ ~dry_run
    /\ \E o \in create_issue(Tasks[ti], epic_ctx, epic_field_key, <<>>) :
        /\ calls' = calls \o o.calls
        /\ IF o.err # Nothing
           THEN /\ Raise(o.err[1])
                /\ UNCHANGED <<issues, created_keys, parent_key, ti, si, printed>>
           ELSE /\ issues' = Append(issues, [key |-> NextIssueKey, fields |-> o.fields[1]])
                /\ parent_key' = NextIssueKey
                /\ created_keys' = Append(created_keys, NextIssueKey)
                /\ IF "subtask" \in DOMAIN ids
                   THEN /\ printed' = Append(printed, [kind |-> "Creada", title |-> Tasks[ti].title])
                        /\ IF Tasks[ti].subtasks # <<>>
                           THEN /\ pc' = "subtasks"
                                /\ si' = 1
                                /\ ti' = ti
                           ELSE NextTask
                   ELSE /\ printed' = printed
                                      \o <<[kind |-> "Creada", title |-> Tasks[ti].title]>>
                                      \o (IF Tasks[ti].subtasks # <<>>
                                          THEN <<Line("Subtareas ignoradas")>> ELSE <<>>)
                        /\ NextTask
                /\ UNCHANGED <<returned, error>>
    /\ UNCHANGED <<env, epic_vars, bundle, e_chat, ids>>

\* A variant of SubtaskParent: the key of the first parent created.
SubtaskParentOfFirstTask == created_keys[1]

\* The parent_key argument of the create_issue call of a subtask
SubtaskParent == parent_key

\* Subtask si of task ti:
\* create_issue(st_task, ids, epic_ctx=None, epic_field_key=None, parent_key)
CreateSubtask ==
    /\ pc = "subtasks"
    /\ LET t == Tasks[ti]
           st == t.subtasks[si]
       IN  \E o \in create_issue(SubtaskAsTask(t, st), Nothing, None, SubtaskParent) :
            /\ calls' = calls \o o.calls
            /\ IF o.err # Nothing
               THEN /\ Raise(o.err[1])
                    /\ UNCHANGED <<issues, ti, si, printed>>
               ELSE /\ issues' = Append(issues, [key |-> NextIssueKey, fields |-> o.fields[1]])
                    /\ printed' = Append(printed, [kind |-> "Subtask", title |-> st.title])
                    /\ IF si < Len(t.subtasks)
                       THEN /\ si' = si + 1
                            /\ UNCHANGED <<ti, pc>>
                       ELSE NextTask
                    /\ UNCHANGED <<returned, error>>
    /\ UNCHANGED <<env, epic_vars, bundle, e_chat, ids, created_keys, parent_key>>

\* return created_keys
Return ==
    /\ pc = "loop"
    /\ ti > Len(Tasks)
    /\ pc' = "returned"
    /\ returned' = Some(created_keys)
    /\ UNCHANGED <<env, epic_vars, bundle, e_chat, loop_vars, calls, issues, printed, error>>

Next ==
    \/ DetectEpic
    \/ FindEpicIssue
    \/ GetEpicLinkFieldKey
    \/ LlmChat
    \/ LlmResponses
    \/ GetIssueTypeIds
    \/ DryRunTask
    \/ CreateParent
    \/ CreateSubtask
    \/ Return

Spec == Init /\ [][Next]_vars

\* ------------------------------------------------------------------------
\* get_priority_map on its own, over every priority list of PriorityLists
\* ------------------------------------------------------------------------
InitPriority ==
    /\ raw_text = <<>>
    /\ dry_run = TRUE
    /\ api_key = ""
    /\ tracker = [projects |-> <<>>, fields |-> <<>>, epics |-> <<>>,
                  priorities |-> <<>>, users |-> NoUsers, last_key |-> 0]
    /\ pc = "priority"
    /\ epic_name = None
    /\ epic_ctx = Nothing
    /\ epic_field_key = None
    /\ bundle = Nothing
    /\ e_chat = None
    /\ ids = <<>>
    /\ created_keys = <<>>
    /\ ti = 0
    /\ si = 0
    /\ parent_key = <<>>
    /\ calls = <<>>
    /\ issues = <<>>
    /\ printed = <<>>
    /\ returned = Nothing
    /\ error = Nothing
    /\ prio_in \in PriorityLists
    /\ prio_out = Nothing

\* priority_map = get_priority_map(), the tracker answering prio_in
GetPriorityMap ==
    /\ pc = "priority"
    /\ prio_out = Nothing
    /\ prio_out' = Some(get_priority_map(prio_in))
    /\ UNCHANGED <<raw_text, dry_run, api_key, tracker, pc, epic_vars, bundle, e_chat,
                   loop_vars, calls, issues, printed, returned, error, prio_in>>

NextPriority == GetPriorityMap

SpecPriority == InitPriority /\ [][NextPriority]_vars

\* ------------------------------------------------------------------------
\* Properties
\* ------------------------------------------------------------------------
\* The positions in the log of the calls to api, and of the issue creations
\* the tracker accepted
CallsOf(api) == {i \in 1..Len(calls) : calls[i].api = api}
Created == {i \in CallsOf("POST /issue") : calls[i].ok}

TrackerApis == {"POST /search", "GET /field", "GET /issue/createmeta", "GET /priority",
                "GET /user/search", "POST /issue"}
NoTrackerFailure == \A i \in 1..Len(calls) : calls[i].api \in TrackerApis => calls[i].ok

IsPrefix(a, b) == Len(a) <= Len(b) /\ SubSeq(b, 1, Len(a)) = a

IsDryLine(l) == l.kind \in {"DRY Task", "DRY Subtask"}
IsSubtaskIssue(x) == Len(x.fields.summary.id) = 2
IsParentIssue(x) == Len(x.fields.summary.id) = 1

\* The titles of the first n tasks, each followed by those of its subtasks
RECURSIVE TitlesInOrder(_, _)
TitlesInOrder(tasks, n) ==
    IF n = 0 THEN <<>>
    ELSE TitlesInOrder(tasks, n - 1) \o <<tasks[n].title>>
         \o [j \in 1..Len(tasks[n].subtasks) |-> tasks[n].subtasks[j].title]

\* C1: a dry run never posts an issue, and when it returns it has printed
\* exactly one preview line per task and per subtask, in input order, and
\* returns the empty list.
C1_DryRunCreatesNothing ==
    dry_run =>
        /\ CallsOf("POST /issue") = {}
        /\ issues = <<>>
        /\ pc = "returned" =>
            /\ returned = Some(<<>>)
            /\ LET dry == SelectSeq(printed, IsDryLine)
                   want == TitlesInOrder(Tasks, Len(Tasks))
               IN  /\ Len(dry) = Len(want)
                   /\ \A i \in 1..Len(dry) :
                        /\ dry[i].title = want[i]
                        /\ dry[i].kind = IF Len(want[i].id) = 1 THEN "DRY Task"
                                         ELSE "DRY Subtask"

C1_Witness ==
    /\ dry_run
    /\ pc = "returned"
    /\ Len(Tasks) = 1
    /\ Len(Tasks[1].subtasks) = 2
    /\ Len(SelectSeq(printed, IsDryLine)) = 3

\* C2: in a real run with a subtask type id, the issues are created task by
\* task in input order, each parent before its subtasks and these in input
\* order; every subtask refers to the key of the parent of its own task; the
\* list returned is the parents' keys in input order.
C2_ParentThenSubtasks ==
    (~dry_run /\ "subtask" \in DOMAIN ids) =>
        LET want == TitlesInOrder(Tasks, Len(Tasks))
            made == [i \in 1..Len(issues) |-> issues[i].fields.summary.id]
            parents == SelectSeq(issues, IsParentIssue)
        IN  /\ IsPrefix(made, [i \in 1..Len(want) |-> want[i].id])
            /\ \A i \in 1..Len(issues) :
                IsSubtaskIssue(issues[i]) =>
                    \E j \in 1..(i - 1) :
                        /\ made[j] = <<made[i][1]>>
                        /\ issues[i].fields.parent
                             = Some([by |-> "key", ref |-> issues[j].key])
            /\ \A i, j \in 1..Len(issues) : i # j => issues[i].key # issues[j].key
            /\ pc = "returned" =>
                /\ Len(made) = Len(want)
                /\ returned = Some([i \in 1..Len(parents) |-> parents[i].key])

C2_Witness ==
    /\ ~dry_run
    /\ pc = "returned"
    /\ "subtask" \in DOMAIN ids
    /\ Len(Tasks) = 2
    /\ \A i \in 1..2 : Len(Tasks[i].subtasks) = 2
    /\ Len(issues) = 6
    /\ Len(returned[1]) = 2

\* C3: with no hard failure (every tracker call answered, the LLM gave a
\* non-empty bundle, createmeta lists the project), a real run does not
\* raise, whatever the issue types of the project are.
C3_MissesNeverAbort ==
    (/\ ~dry_run
     /\ bundle # Nothing
     /\ Tasks # <<>>
     /\ tracker.projects # <<>>
     /\ NoTrackerFailure) => pc # "raised"

\* C4: a failed tracker call, or a failed second LLM attempt, is the last
\* call of the run, and the run has raised; the failed first LLM attempt is
\* followed by the second attempt only.
C4_FailureHalts ==
    /\ \A i \in 1..Len(calls) :
        ~calls[i].ok =>
            IF calls[i].api = "chat.completions"
            THEN \/ i = Len(calls) /\ pc = "llm_fallback"
                 \/ i < Len(calls) /\ calls[i + 1].api = "responses"
            ELSE /\ i = Len(calls)
                 /\ pc = "raised"
                 /\ error # Nothing
                 /\ returned = Nothing
    /\ pc = "raised" => error # Nothing /\ returned = Nothing

C4_Witness ==
    /\ pc = "raised"
    /\ Len(calls) > 6
    /\ calls[Len(calls)].api = "GET /user/search"
    /\ ~calls[Len(calls)].ok
    /\ \E i \in CallsOf("chat.completions") : ~calls[i].ok

\* C5: the linkage of every issue posted.  A subtask has the subtask type,
\* its parent by key, no priority and no epic link; a parent task has the
\* task type and, with an epic, either the epic-link field (field key
\* known) or the epic's id as parent, and neither without an epic.
C5_LinkageShape ==
    \A i \in 1..Len(issues) :
        LET f == issues[i].fields
        IN  IF IsSubtaskIssue(issues[i])
            THEN /\ f.issuetype = ids["subtask"]
                 /\ f.parent # Nothing
                 /\ f.parent[1].by = "key"
                 /\ \E k \in 1..Len(created_keys) : f.parent[1].ref = created_keys[k]
                 /\ i = Len(issues) => f.parent[1].ref = parent_key
                 /\ f.priority = Nothing
                 /\ f.epic_link = Nothing
            ELSE /\ f.issuetype = ids["task"]
                 /\ IF epic_ctx = Nothing
                    THEN f.parent = Nothing /\ f.epic_link = Nothing
                    ELSE IF Truthy(epic_field_key)
                    THEN /\ f.parent = Nothing
                         /\ f.epic_link = Some([field |-> epic_field_key,
                                                value |-> epic_ctx[1].key])
                    ELSE /\ f.epic_link = Nothing
                         /\ f.parent # Nothing
                         /\ f.parent[1].by = "id"
                         /\ f.parent[1].ref = epic_ctx[1].id

C5_Witness ==
    /\ pc = "returned"
    /\ epic_ctx # Nothing
    /\ ~Truthy(epic_field_key)
    /\ \E i, j \in 1..Len(issues) :
        /\ IsSubtaskIssue(issues[i])
        /\ IsParentIssue(issues[j])
        /\ issues[j].fields.parent # Nothing
        /\ issues[j].fields.priority # Nothing

\* C6: the map get_priority_map returns takes the lowercase full name of
\* every priority to the id of that priority; a first word that is no
\* priority's full name is taken to the id of the last priority listed with
\* that first word.
C6_FullNamesKeepTheirId ==
    prio_out # Nothing =>
        LET m == prio_out[1]
            full == {Lower(prio_in[i].name) : i \in 1..Len(prio_in)}
        IN  /\ \A i \in 1..Len(prio_in) :
                DictGet(m, Lower(prio_in[i].name)) = prio_in[i].id
            /\ \A i \in 1..Len(prio_in) :
                LET w == <<Head(Lower(prio_in[i].name))>>
                    last == CHOOSE j \in 1..Len(prio_in) :
                              /\ <<Head(Lower(prio_in[j].name))>> = w
                              /\ \A k \in 1..Len(prio_in) :
                                   <<Head(Lower(prio_in[k].name))>> = w => k <= j
                IN  w \notin full => DictGet(m, w) = prio_in[last].id

\* C7: a run fetches the tracker's priority list at most once, and the
\* project's issue types at most once (exactly once when it returns).
C7_MetadataFetchedOnce ==
    /\ Cardinality(CallsOf("GET /priority")) <= 1
    /\ Cardinality(CallsOf("GET /issue/createmeta")) <= 1
    /\ pc = "returned" => Cardinality(CallsOf("GET /issue/createmeta")) = 1

\* llm_structurize_tasks has raised; both of its attempts failed
LlmRaised ==
    /\ pc = "raised"
    /\ error[1].detail[1] \in {"OPENAI_API_KEY no esta seteada", "OpenAI fallo"}
BothAttemptsFailed ==
    /\ \E i \in CallsOf("chat.completions") : ~calls[i].ok
    /\ \E j \in CallsOf("responses") : ~calls[j].ok

\* The part of C8 on the order of the attempts: the first attempt is made
\* at most once; the second at most once, right after a failed first one,
\* and always when the first one failed; the bundle is that of the attempt
\* that succeeded.
LlmAttemptsInOrder ==
    /\ Cardinality(CallsOf("chat.completions")) <= 1
    /\ Cardinality(CallsOf("responses")) <= 1
    /\ \A j \in CallsOf("responses") :
        j > 1 /\ calls[j - 1].api = "chat.completions" /\ ~calls[j - 1].ok
    /\ \A i \in CallsOf("chat.completions") :
        (~calls[i].ok /\ pc # "llm_fallback") => (i + 1) \in CallsOf("responses")
    /\ bundle # Nothing <=>
        \E i \in CallsOf("chat.completions") \cup CallsOf("responses") : calls[i].ok

\* C8 as stated: llm_structurize_tasks raises if and only if both attempts
\* failed, and the error holds both messages.
C8_RaisesIffBothFailed ==
    /\ LlmAttemptsInOrder
    /\ LlmRaised <=> BothAttemptsFailed
    /\ LlmRaised =>
        /\ error[1].detail[2] = e_chat
        /\ e_chat \in ChatFailures
        /\ error[1].detail[3] \in ResponsesFailures

\* C8, amended: with an empty API key llm_structurize_tasks raises before
\* any attempt is made; with a key it raises if and only if both attempts
\* failed, and that error holds both messages.
C8_RaisesIffNoKeyOrBothFailed ==
    /\ LlmAttemptsInOrder
    /\ LlmRaised <=>
        \/ BothAttemptsFailed
        \/ /\ ~Truthy(api_key)
           /\ pc = "raised"
           /\ CallsOf("chat.completions") \cup CallsOf("responses") = {}
           /\ bundle = Nothing
           /\ \A i \in 1..Len(calls) : calls[i].ok
    /\ ~Truthy(api_key) => CallsOf("chat.completions") \cup CallsOf("responses") = {}
    /\ (LlmRaised /\ BothAttemptsFailed) =>
        /\ Len(error[1].detail) = 3
        /\ error[1].detail[2] = e_chat
        /\ e_chat \in ChatFailures
        /\ error[1].detail[3] \in ResponsesFailures

C8_Witness ==
    /\ LlmRaised
    /\ BothAttemptsFailed
    /\ Len(calls) = 4

\* The issue types were resolved: get_issue_type_ids returned
TypesResolved ==
    /\ tracker.projects # <<>>
    /\ \E i \in CallsOf("GET /issue/createmeta") : calls[i].ok

\* C9: in a real run without a subtask type id no subtask is created, every
\* parent is created and its key returned, and the run does not fail (no
\* tracker call failing); with a subtask type id, a subtask issue has the
\* labels of its parent issue and the account of its own assignee, or of
\* the parent's when it has none.
C9_SubtasksSkippedOrInherit ==
    (~dry_run /\ TypesResolved) =>
        IF "subtask" \notin DOMAIN ids
        THEN /\ \A i \in 1..Len(issues) : IsParentIssue(issues[i])
             /\ NoTrackerFailure => pc # "raised"
             /\ pc = "returned" =>
                 /\ Len(issues) = Len(Tasks)
                 /\ returned = Some([i \in 1..Len(issues) |-> issues[i].key])
        ELSE \A i \in 1..Len(issues) :
                IsSubtaskIssue(issues[i]) =>
                    LET id == issues[i].fields.summary.id
                        t == Tasks[id[1]]
                        st == t.subtasks[id[2]]
                        who == IF Truthy(st.assignee) THEN st.assignee ELSE t.assignee
                        account == IF Truthy(who)
                                   THEN FirstAccountId(tracker.users[who]) ELSE None
                        parent == CHOOSE j \in 1..Len(issues) :
                                    issues[j].fields.summary.id = <<id[1]>>
                    IN  /\ issues[i].fields.labels = issues[parent].fields.labels
                        /\ issues[i].fields.labels = Take(t.labels, LabelsMax)
                        /\ issues[i].fields.assignee
                             = IF Truthy(account) THEN Some(account) ELSE Nothing

\* C10: no rollback and no partial result.  Every issue whose creation the
\* tracker accepted stays created, also after a later failure; a run that
\* raised returned nothing; when the LLM extraction failed no issue exists.
C10_NoRollback ==
    /\ Len(issues) = Cardinality(Created)
    /\ pc = "raised" =>
        /\ returned = Nothing
        /\ error # Nothing
        /\ bundle = Nothing => issues = <<>>

C10_Witness ==
    /\ pc = "raised"
    /\ Len(issues) >= 2
    /\ Len(created_keys) >= 1
    /\ calls[Len(calls)].api = "POST /issue"
    /\ ~calls[Len(calls)].ok

=============================================================================
